---- MODULE Spec2Model ----
(***************************************************************************)
(* Model of util::data_recorder (golden-file recording engine): recording  *)
(* directory / filename configuration, the record-or-compare protocol,     *)
(* upward path search, mismatch directory allocation and the mismatch      *)
(* handlers, over an explicit filesystem.                                  *)
(*                                                                         *)
(* A string is a sequence of one-character strings, a path is a sequence   *)
(* of components (each a string); the root directory is the component "/". *)
(***************************************************************************)
EXTENDS Naturals, Sequences, FiniteSets

VARIABLES
    dirs,                  \* the directories that exist on the filesystem
    files,                 \* regular files: path -> content
    m_recording_filename,  \* std::optional<std::string>
    m_recording_dir,       \* std::optional<std::filesystem::path>
    m_on_mismatch,         \* std::optional<std::function<...>>
    proc,                  \* "running", "aborted" (VERIFY failed), "hung"
    ret,                   \* what the last call did and returned
    find_result,           \* what the last find_relative_path call returned
    handler_calls,         \* the mismatches handed to the handler by the last record
    resolutions,           \* how often this engine ran record, selected a default
                           \* handler and derived a filename
    alloc,                 \* the processes running determine_mismatch_dir
    m_json,                \* filter_json::m_json
    visits                 \* the nodes the visitor of transform_objects was called on

vars == <<dirs, files, m_recording_filename, m_recording_dir, m_on_mismatch,
          proc, ret, find_result, handler_calls, resolutions, alloc, m_json, visits>>

-----------------------------------------------------------------------------
(* Bounds *)

\* number of directories between the root and the working directory
CwdDepth == 2

\* longest filename handed to set_recording_filename
MaxNameLen == 3

\* longest data string handed to record
MaxDataLen == 1

\* searched_paths entries that fit in memory before push_back throws
MaxSearched == 5

\* mismatch directories the temp directory can hold
MaxMismatchDirs == 2

\* highest cppmismatch-<n> left behind by earlier runs
MaxInitDir == 1

\* recording files the filesystem can hold
MaxFiles == 1

\* processes that share the temp directory
NumProcs == 2

\* determine_mismatch_dir calls of one process
MaxAllocations == 3

\* determine_mismatch_dir calls of one of several concurrent processes
MaxRaceCalls == 1

\* highest cppmismatch-<n> that exists before the first allocation
MaxPreDir == 4

\* elements of the vector handed to record(const std::vector<std::string>&)
MaxVectorLen == 2

\* length of one element of that vector
MaxElementLen == 1

\* length of the data the diff handler renders
MaxRenderLen == 2

\* nesting depth of the JSON documents given to filter_json
MaxJsonDepth == 3

-----------------------------------------------------------------------------
(* Strings and paths *)

NoValue == [has_value |-> FALSE]

Some(v) == [has_value |-> TRUE, value |-> v]

str_slash == <<"/">>
str_d == <<"d">>
str_e == <<"e">>
str_f == <<"f">>
str_g == <<"g">>
str_tmp == <<"t", "m", "p">>
str_abs == <<"a", "b", "s">>
str_missing == <<"m", "i", "s", "s", "i", "n", "g">>
str_test == <<"t", "e", "s", "t">>
str_recordings == <<"r", "e", "c", "o", "r", "d", "i", "n", "g", "s">>
str_visualizer == <<"v", "i", "s", "u", "a", "l", "i", "z", "e", "r">>
str_recording_diff_html ==
    <<"r", "e", "c", "o", "r", "d", "i", "n", "g", "_", "d", "i", "f", "f",
      ".", "h", "t", "m", "l">>
str_cppmismatch == <<"c", "p", "p", "m", "i", "s", "m", "a", "t", "c", "h", "-">>
str_dot_data == <<".", "d", "a", "t", "a">>
str_underscore == <<"_">>

Digit(d) == <<"0", "1", "2", "3", "4", "5", "6", "7", "8", "9">>[d + 1]

RECURSIVE to_string(_)
to_string(i) ==
    IF i < 10 THEN <<Digit(i)>> ELSE to_string(i \div 10) \o <<Digit(i % 10)>>

RECURSIVE SeqsUpTo(_, _)
SeqsUpTo(S, n) ==
    IF n = 0 THEN {<<>>}
    ELSE LET shorter == SeqsUpTo(S, n - 1)
         IN  shorter \cup {Append(s, c) : s \in shorter, c \in S}

\* std::filesystem::path::is_absolute (POSIX: the path has a root directory)
is_absolute(p) == Len(p) > 0 /\ p[1] = str_slash

\* std::filesystem::path::has_relative_path
has_relative_path(p) == Len(p) > (IF is_absolute(p) THEN 1 ELSE 0)

\* std::filesystem::path::parent_path: a path without a relative part (the
\* root, the empty path) is its own parent
parent_path(p) ==
    IF ~has_relative_path(p) THEN p ELSE SubSeq(p, 1, Len(p) - 1)

\* std::filesystem::path::filename
filename(p) == IF has_relative_path(p) THEN p[Len(p)] ELSE <<>>

\* std::filesystem::path(const std::string&) of a relative name: the
\* components between the separators; a trailing separator leaves an empty
\* last component
RECURSIVE path_of(_, _)
path_of(s, i) ==
    IF i > Len(s) THEN <<s>>
    ELSE IF s[i] # "/" THEN path_of(s, i + 1)
    ELSE <<SubSeq(s, 1, i - 1)>> \o path_of(SubSeq(s, i + 1, Len(s)), 1)

\* std::filesystem::operator/
PathAppend(a, b) == IF is_absolute(b) THEN b ELSE a \o b

DirNames == <<str_d, str_e, str_f, str_g>>

\* std::filesystem::current_path()
current_path == <<str_slash>> \o [i \in 1..CwdDepth |-> DirNames[i]]

\* std::filesystem::temp_directory_path()
temp_directory_path == <<str_slash, str_tmp>>

\* the working directory and its ancestors, nearest first
RECURSIVE Chain(_)
Chain(d) == IF ~has_relative_path(d) THEN <<d>> ELSE <<d>> \o Chain(parent_path(d))

CwdChain == Chain(current_path)

Range(s) == {s[i] : i \in 1..Len(s)}

\* std::filesystem::exists
exists(p, ds, fs) == p \in ds \/ p \in DOMAIN fs

-----------------------------------------------------------------------------
(* The filesystem the engine runs on *)

visualizer_path == <<str_visualizer, str_recording_diff_html>>

\* recording directories handed to set_recording_dir
abs_dir == <<str_slash, str_abs>>
missing_dir == <<str_slash, str_missing>>
single_dir == <<str_recordings>>
multi_dir == <<str_test, str_recordings>>

DirArgs == {<<>>, abs_dir, missing_dir, single_dir, multi_dir}

\* the recording directories of the recording runs: one that exists and one
\* that does not
RecordDirArgs == {abs_dir, missing_dir}

NameAlphabet == {".", "x"}
Count(s, c) == Cardinality({i \in 1..Len(s) : s[i] = c})

\* filenames handed to set_recording_filename: at most one dot
NameArgs == {s \in SeqsUpTo(NameAlphabet, MaxNameLen) : Count(s, ".") <= 1}

\* ./recording_diff.html: a filename that names the file the template names
template_like_name == <<".", "/">> \o str_recording_diff_html

\* filenames handed to set_recording_filename in the configuration runs
ConfigNameArgs == NameArgs \cup {template_like_name}

DataAlphabet == {"A", "B"}
Data == SeqsUpTo(DataAlphabet, MaxDataLen)

\* content of visualizer/recording_diff.html, as tokens: text, the start and
\* end marker of the oldText block, text, the markers of the newText block,
\* text (BQ stands for the backtick)
TemplateText ==
    <<"head", "const oldText = BQ", "BQ;", "mid", "const newText = BQ", "BQ;", "tail">>

mismatch_dir_path(i) == temp_directory_path \o <<str_cppmismatch \o to_string(i)>>

MismatchDirs(ds) == {i \in 0..(MaxMismatchDirs + MaxInitDir + 1) : mismatch_dir_path(i) \in ds}

IsMismatchPath(p) == Len(p) > 2 /\ SubSeq(p, 1, 2) = temp_directory_path

IsTemplatePath(p) == Len(p) > 2 /\ SubSeq(p, Len(p) - 1, Len(p)) = visualizer_path

RecordingFiles(fs) == {p \in DOMAIN fs : ~IsMismatchPath(p) /\ ~IsTemplatePath(p)}

\* directories that exist whatever the layout
BaseDirs == Range(CwdChain) \cup {temp_directory_path, abs_dir}

\* a layout names the chain directories under which the template, the
\* single-component and the multi-component recording directory exist, and
\* the mismatch directories left by earlier runs

\* the layouts the recording runs start from: no template, a template in
\* the working directory or in the root; no mismatch directory yet, or one
\* left by an earlier run
RecordLayouts ==
    [template : {{}, {current_path}, {<<str_slash>>}},
     single : {{}},
     multi : {{}},
     mismatch : {{}, {MaxInitDir}}]

\* the layouts the configuration runs start from: every placement of the
\* two recording directories along the chain
ConfigLayouts ==
    [template : {{}},
     single : SUBSET Range(CwdChain),
     multi : SUBSET Range(CwdChain),
     mismatch : {{}}]

LayoutDirs(l) ==
    BaseDirs
    \cup {PathAppend(d, single_dir) : d \in l.single}
    \cup {PathAppend(d, multi_dir) : d \in l.multi}
    \cup {mismatch_dir_path(i) : i \in l.mismatch}

LayoutFiles(l) ==
    [p \in {PathAppend(d, visualizer_path) : d \in l.template} |-> TemplateText]

-----------------------------------------------------------------------------
(* File helpers *)

\* VERIFY(file.is_open()) of write_data: the file can be opened for writing
can_write(path, ds) == parent_path(path) \in ds /\ path \notin ds

\* write_data: the file holds exactly data afterwards (std::ios::trunc)
write_data(path, data, fs) ==
    [p \in DOMAIN fs \cup {path} |-> IF p = path THEN data ELSE fs[p]]

\* VERIFY(file.is_open()) of read_data
can_read(path, fs) == path \in DOMAIN fs

\* read_data: the whole content of the file
read_data(path, fs) == fs[path]

-----------------------------------------------------------------------------
(* find_relative_path *)

NoFind == [kind |-> "none", path |-> <<>>, value |-> <<>>, searched_paths |-> <<>>]

\* the while loop of find_relative_path; push_back throws std::bad_alloc
\* once searched_paths holds MaxSearched entries
RECURSIVE find_loop(_, _, _, _, _)
find_loop(current, path, searched_paths, ds, fs) ==
    IF current = <<>>
    THEN [kind |-> "not_found", path |-> path, value |-> <<>>,
          searched_paths |-> searched_paths]
    ELSE IF Len(searched_paths) >= MaxSearched
    THEN [kind |-> "bad_alloc", path |-> path, value |-> <<>>,
          searched_paths |-> searched_paths]
    ELSE LET candidate == PathAppend(current, path)
             searched == Append(searched_paths, candidate)
         IN  IF exists(candidate, ds, fs)
             THEN [kind |-> "found", path |-> path, value |-> candidate,
                   searched_paths |-> searched]
             ELSE find_loop(parent_path(current), path, searched, ds, fs)

\* the search started one directory too high
find_relative_path_from_parent(path, ds, fs) ==
    find_loop(parent_path(current_path), path, <<>>, ds, fs)

find_relative_path(path, ds, fs) == find_loop(current_path, path, <<>>, ds, fs)

-----------------------------------------------------------------------------
(* Mismatch handlers *)

data_mismatch(recording_data, data, mismatch_dir, recording_path) ==
    [recording_data |-> recording_data, mismatch_data |-> data,
     mismatch_dir |-> mismatch_dir, recording_path |-> recording_path]

NoError ==
    [code |-> "none", by |-> "none", recording_data |-> <<>>, mismatch_data |-> <<>>,
     recording_path |-> <<>>, mismatch_path |-> <<>>, html_diff |-> <<>>]

\* the error default_mismatch_handler makes
default_mismatch_handler(mismatch) ==
    [code |-> "invalid_argument", by |-> "default",
     recording_data |-> mismatch.recording_data,
     mismatch_data |-> mismatch.mismatch_data,
     recording_path |-> <<>>, mismatch_path |-> <<>>, html_diff |-> <<>>]

\* the error a callback registered with on_mismatch makes
callback_handler(mismatch) ==
    [code |-> "callback", by |-> "callback",
     recording_data |-> mismatch.recording_data,
     mismatch_data |-> mismatch.mismatch_data,
     recording_path |-> mismatch.recording_path,
     mismatch_path |-> mismatch.mismatch_dir, html_diff |-> <<>>]

\* escape_dollar_bracs: regex_replace(input, \$\{[^}]+\}, \$&) puts a
\* backslash before every ${...} placeholder
RECURSIVE closing_brace(_, _)
closing_brace(s, j) ==
    IF j > Len(s) THEN 0 ELSE IF s[j] = "}" THEN j ELSE closing_brace(s, j + 1)

RECURSIVE escape_from(_, _)
escape_from(s, i) ==
    IF i > Len(s) THEN <<>>
    ELSE LET j == IF i + 3 <= Len(s) /\ s[i] = "$" /\ s[i + 1] = "{" /\ s[i + 2] # "}"
                  THEN closing_brace(s, i + 3) ELSE 0
         IN  IF j > 0
             THEN <<"\\">> \o SubSeq(s, i, j) \o escape_from(s, j + 1)
             ELSE <<s[i]>> \o escape_from(s, i + 1)

escape_dollar_bracs(input) == escape_from(input, 1)

\* regex_replace(file_content, (start)([^BQ]*)(end), "$1" + text + "$3"):
\* the text between the start marker and the end marker is replaced
RECURSIVE index_of(_, _, _)
index_of(content, token, i) ==
    IF i > Len(content) THEN 0
    ELSE IF content[i] = token THEN i ELSE index_of(content, token, i + 1)

\* the pieces of text that hold a backtick: the markers and the backtick
has_backtick(piece) ==
    piece \in {"const oldText = BQ", "const newText = BQ", "BQ;", "BQ"}

\* the first piece from i on that holds a backtick, where [^BQ]* stops
RECURSIVE next_backtick(_, _)
next_backtick(content, i) ==
    IF i > Len(content) THEN 0
    ELSE IF has_backtick(content[i]) THEN i ELSE next_backtick(content, i + 1)

IsDigit(c) == \E d \in 0..9 : Digit(d) = c

DigitValue(c) == CHOOSE d \in 0..9 : Digit(d) = c

\* match_results::format with the ECMAScript rules: $$ is a dollar, $& the
\* match, $BQ the text before it, $' the text after it, $n and $nn the
\* sub-match n (nothing when there is no such sub-match); any other dollar
\* stands for itself
RECURSIVE format(_, _, _)
format(fmt, i, m) ==
    IF i > Len(fmt) THEN <<>>
    ELSE IF fmt[i] # "$" THEN <<fmt[i]>> \o format(fmt, i + 1, m)
    ELSE IF i = Len(fmt) THEN <<"$">>
    ELSE IF fmt[i + 1] = "$" THEN <<"$">> \o format(fmt, i + 2, m)
    ELSE IF fmt[i + 1] = "&" THEN m.sub[1] \o format(fmt, i + 2, m)
    ELSE IF fmt[i + 1] = "BQ" THEN m.prefix \o format(fmt, i + 2, m)
    ELSE IF fmt[i + 1] = "'" THEN m.suffix \o format(fmt, i + 2, m)
    ELSE IF IsDigit(fmt[i + 1])
    THEN LET two == i + 2 <= Len(fmt) /\ IsDigit(fmt[i + 2])
             num == IF two
                    THEN 10 * DigitValue(fmt[i + 1]) + DigitValue(fmt[i + 2])
                    ELSE DigitValue(fmt[i + 1])
         IN  (IF num < Len(m.sub) THEN m.sub[num + 1] ELSE <<>>)
                \o format(fmt, IF two THEN i + 3 ELSE i + 2, m)
    ELSE <<"$">> \o format(fmt, i + 1, m)

\* regex_replace over the content from pos on: every match of
\* (start)([^BQ]*)(end) is replaced by the expansion of the format string
RECURSIVE regex_replace(_, _, _, _, _)
regex_replace(content, pos, start, end, fmt) ==
    LET i == index_of(content, start, pos)
        j == IF i = 0 THEN 0 ELSE next_backtick(content, i + 1)
    IN  IF i = 0 THEN SubSeq(content, pos, Len(content))
        ELSE IF j = 0 \/ content[j] # end
        THEN SubSeq(content, pos, i) \o regex_replace(content, i + 1, start, end, fmt)
        ELSE SubSeq(content, pos, i - 1)
                \o format(fmt, 1, [sub |-> <<SubSeq(content, i, j), <<content[i]>>,
                                            SubSeq(content, i + 1, j - 1), <<content[j]>>>>,
                                   prefix |-> SubSeq(content, pos, i - 1),
                                   suffix |-> SubSeq(content, j + 1, Len(content))])
                \o regex_replace(content, j + 1, start, end, fmt)

\* regex_replace(file_content, pattern, "$1" + text + "$3")
replace_block(content, start, end, text) ==
    regex_replace(content, 1, start, end, <<"$", "1">> \o text \o <<"$", "3">>)

\* the mismatching data written over the recording instead of next to the
\* rendered template
diff_mismatch_handler_overwrites(recording_diff_html, mismatch, ds, fs) ==
    LET escaped_recording_data == escape_dollar_bracs(mismatch.recording_data)
        escaped_mismatch_data == escape_dollar_bracs(mismatch.mismatch_data)
        output_file == PathAppend(mismatch.mismatch_dir, <<filename(recording_diff_html)>>)
        mismatch_path == mismatch.recording_path
    IN  IF ~can_read(recording_diff_html, fs)
        THEN [ok |-> FALSE, error |-> NoError, files |-> fs]
        ELSE LET file_content ==
                     replace_block(
                         replace_block(read_data(recording_diff_html, fs),
                                       "const oldText = BQ", "BQ;", escaped_recording_data),
                         "const newText = BQ", "BQ;", escaped_mismatch_data)
                 fs1 == write_data(output_file, file_content, fs)
             IN  IF ~can_write(output_file, ds)
                 THEN [ok |-> FALSE, error |-> NoError, files |-> fs]
                 ELSE IF ~can_write(mismatch_path, ds)
                 THEN [ok |-> FALSE, error |-> NoError, files |-> fs1]
                 ELSE [ok |-> TRUE,
                       error |-> [code |-> "invalid_argument", by |-> "diff",
                                  recording_data |-> mismatch.recording_data,
                                  mismatch_data |-> mismatch.mismatch_data,
                                  recording_path |-> mismatch.recording_path,
                                  mismatch_path |-> mismatch_path,
                                  html_diff |-> output_file],
                       files |-> write_data(mismatch_path, mismatch.mismatch_data, fs1)]

\* diff_mismatch_handler: renders the template into the mismatch directory
\* and writes the mismatching data next to it
diff_mismatch_handler(recording_diff_html, mismatch, ds, fs) ==
    LET escaped_recording_data == escape_dollar_bracs(mismatch.recording_data)
        escaped_mismatch_data == escape_dollar_bracs(mismatch.mismatch_data)
        output_file == PathAppend(mismatch.mismatch_dir, <<filename(recording_diff_html)>>)
        mismatch_path == PathAppend(mismatch.mismatch_dir, <<filename(mismatch.recording_path)>>)
    IN  IF ~can_read(recording_diff_html, fs)
        THEN [ok |-> FALSE, error |-> NoError, files |-> fs]
        ELSE LET file_content ==
                     replace_block(
                         replace_block(read_data(recording_diff_html, fs),
                                       "const oldText = BQ", "BQ;", escaped_recording_data),
                         "const newText = BQ", "BQ;", escaped_mismatch_data)
                 fs1 == write_data(output_file, file_content, fs)
             IN  IF ~can_write(output_file, ds)
                 THEN [ok |-> FALSE, error |-> NoError, files |-> fs]
                 ELSE IF ~can_write(mismatch_path, ds)
                 THEN [ok |-> FALSE, error |-> NoError, files |-> fs1]
                 ELSE [ok |-> TRUE,
                       error |-> [code |-> "invalid_argument", by |-> "diff",
                                  recording_data |-> mismatch.recording_data,
                                  mismatch_data |-> mismatch.mismatch_data,
                                  recording_path |-> mismatch.recording_path,
                                  mismatch_path |-> mismatch_path,
                                  html_diff |-> output_file],
                       files |-> write_data(mismatch_path, mismatch.mismatch_data, fs1)]

\* m_on_mismatch.value()(mismatch)
call_handler(handler, mismatch, ds, fs) ==
    IF handler.kind = "diff"
    THEN diff_mismatch_handler(handler.visualizer, mismatch, ds, fs)
    ELSE IF handler.kind = "default"
    THEN [ok |-> TRUE, error |-> default_mismatch_handler(mismatch), files |-> fs]
    ELSE [ok |-> TRUE, error |-> callback_handler(mismatch), files |-> fs]

\* determine_mismatch_handler: the diff handler when the visualizer is found
\* above the working directory, the default handler otherwise
determine_mismatch_handler(ds, fs) ==
    LET visualizer == find_relative_path(visualizer_path, ds, fs)
    IN  [find |-> visualizer,
         returned |-> visualizer.kind # "bad_alloc",
         handler |-> IF visualizer.kind = "found"
                     THEN Some([kind |-> "diff", visualizer |-> visualizer.value])
                     ELSE IF visualizer.kind = "not_found"
                     THEN Some([kind |-> "default", visualizer |-> <<>>])
                     ELSE NoValue]

-----------------------------------------------------------------------------
(* The engine *)

TestCaseName == <<"S">>
TestName == <<"t">>

\* testname_as_filename: "<test case>_<test name>.data"
testname_as_filename == TestCaseName \o str_underscore \o TestName \o str_dot_data

\* the while loop of determine_mismatch_dir: the first i whose directory
\* does not exist
RECURSIVE first_free_skips_one(_, _, _)
first_free_skips_one(i, ds, fs) ==
    IF exists(mismatch_dir_path(i), ds, fs)
    THEN first_free_skips_one(i + 1, ds, fs) ELSE i + 1

RECURSIVE first_free(_, _, _)
first_free(i, ds, fs) ==
    IF exists(mismatch_dir_path(i), ds, fs) THEN first_free(i + 1, ds, fs) ELSE i

create_directory_claims_existing(path, ds, fs) == parent_path(path) \in ds

\* std::filesystem::create_directory: true when the directory was created,
\* false when the path exists already
create_directory(path, ds, fs) == parent_path(path) \in ds /\ ~exists(path, ds, fs)

determine_mismatch_dir_creates_nothing(recording_dir, ds, fs) ==
    [ok |-> recording_dir.has_value,
     mismatch_dir |-> mismatch_dir_path(first_free(0, ds, fs)),
     dirs |-> ds]

determine_mismatch_dir_reuses_first(recording_dir, ds, fs) ==
    [ok |-> recording_dir.has_value,
     mismatch_dir |-> mismatch_dir_path(0),
     dirs |-> IF recording_dir.has_value THEN ds \cup {mismatch_dir_path(0)} ELSE ds]

\* determine_mismatch_dir: creates <temp>/cppmismatch-<i>
determine_mismatch_dir(recording_dir, ds, fs) ==
    LET mismatch_dir == mismatch_dir_path(first_free(0, ds, fs))
        created == create_directory(mismatch_dir, ds, fs)
    IN  [ok |-> recording_dir.has_value /\ created,
         mismatch_dir |-> mismatch_dir,
         dirs |-> IF recording_dir.has_value /\ created
                  THEN ds \cup {mismatch_dir} ELSE ds]

\* return m_on_mismatch.value()(mismatch): compare_data fails with the error
\* of the handler, unless a VERIFY inside the handler ended the process
handler_returned(failed, mismatch, call) ==
    IF ~call.ok
    THEN [failed EXCEPT !.files = call.files, !.calls = <<mismatch>>]
    ELSE [result |-> "failure", error |-> call.error, dirs |-> failed.dirs,
          files |-> call.files, calls |-> <<mismatch>>]

\* compare_data
compare_data(data, recording_data, recording_filename, recording_dir, on_mismatch, ds, fs) ==
    LET allocated == determine_mismatch_dir(recording_dir, ds, fs)
        failed == [result |-> "verify_failed", error |-> NoError,
                   dirs |-> allocated.dirs, files |-> fs, calls |-> <<>>]
    IN  IF ~recording_filename.has_value
        THEN [failed EXCEPT !.dirs = ds]
        ELSE IF ~allocated.ok
        THEN failed
        ELSE IF data # recording_data
        THEN LET mismatch ==
                     data_mismatch(recording_data, data, allocated.mismatch_dir,
                                   PathAppend(recording_dir.value,
                                              path_of(recording_filename.value, 1)))
             IN  IF ~on_mismatch.has_value
                 THEN failed
                 ELSE handler_returned(failed, mismatch,
                                       call_handler(on_mismatch.value, mismatch,
                                                    allocated.dirs, fs))
        ELSE [result |-> "success", error |-> NoError,
              dirs |-> allocated.dirs, files |-> fs, calls |-> <<>>]

needs_handler_always(on_mismatch) == TRUE

\* if (!m_on_mismatch): the default handler has to be selected
needs_handler(on_mismatch) == ~on_mismatch.has_value

\* if (!m_recording_filename): the filename has to be derived
needs_filename(recording_filename) == ~recording_filename.has_value

\* return compare_data(data, recording_data): record ends as compare_data did
record_compared(named, compared) ==
    [named EXCEPT !.result = compared.result,
                  !.error = compared.error,
                  !.dirs = compared.dirs,
                  !.files = compared.files,
                  !.calls = compared.calls,
                  !.existed = TRUE]

\* record(const std::string&): what the call returns and leaves behind
record(data, recording_filename, recording_dir, on_mismatch, last_find, ds, fs) ==
    LET determined == determine_mismatch_handler(ds, fs)
        selects == needs_handler(on_mismatch)
        handler == IF selects THEN determined.handler ELSE on_mismatch
        find == IF selects THEN determined.find ELSE last_find
        name == IF needs_filename(recording_filename)
                THEN Some(testname_as_filename) ELSE recording_filename
        base == [result |-> "success", error |-> NoError, dirs |-> ds, files |-> fs,
                 calls |-> <<>>, m_on_mismatch |-> handler,
                 m_recording_filename |-> recording_filename, find |-> find,
                 recording_path |-> <<>>, existed |-> FALSE,
                 selected |-> selects, derived |-> FALSE]
    IN  IF selects /\ ~determined.returned
        THEN [base EXCEPT !.result = "diverged"]
        ELSE IF ~recording_dir.has_value
        THEN [base EXCEPT !.result = "verify_failed"]
        ELSE LET recording_path == PathAppend(recording_dir.value, path_of(name.value, 1))
                 named == [base EXCEPT !.m_recording_filename = name,
                                       !.recording_path = recording_path,
                                       !.derived = needs_filename(recording_filename)]
             IN  IF exists(recording_path, ds, fs)
                 THEN IF ~can_read(recording_path, fs)
                      THEN [named EXCEPT !.result = "verify_failed", !.existed = TRUE]
                      ELSE record_compared(
                               named,
                               compare_data(data, read_data(recording_path, fs),
                                            name, recording_dir, handler, ds, fs))
                 ELSE IF ~can_write(recording_path, ds)
                 THEN [named EXCEPT !.result = "verify_failed"]
                 ELSE [named EXCEPT !.files = write_data(recording_path, data, fs)]

\* how the process goes on after a call
proc_after(result) ==
    IF result = "verify_failed" THEN "aborted"
    ELSE IF result = "diverged" THEN "hung" ELSE "running"

Returned(op, result) ==
    [op |-> op, result |-> result, error |-> NoError, data |-> <<>>,
     dir_arg |-> <<>>, name_arg |-> <<>>, recording_path |-> <<>>, existed |-> FALSE]

-----------------------------------------------------------------------------
(* Actions *)

\* nothing selected or derived yet
NoResolutions == [records |-> 0, handler |-> 0, filename |-> 0]

Procs == 1..NumProcs

\* no process is inside determine_mismatch_dir
IdleAlloc == [p \in Procs |-> [pc |-> "idle", i |-> 0, calls |-> 0, returned |-> <<>>]]

\* no filter_json object
NoJson == [type |-> "null", n |-> 0, items |-> <<>>, members |-> <<>>]

\* a freshly constructed engine on the filesystem of layout l
Constructed(l) ==
    /\ dirs = LayoutDirs(l)
    /\ files = LayoutFiles(l)
    /\ m_recording_filename = NoValue
    /\ m_recording_dir = NoValue
    /\ m_on_mismatch = NoValue
    /\ proc = "running"
    /\ ret = Returned("data_recorder", "void")
    /\ find_result = NoFind
    /\ handler_calls = <<>>
    /\ resolutions = NoResolutions
    /\ alloc = IdleAlloc
    /\ m_json = NoJson
    /\ visits = <<>>

Init == \E l \in RecordLayouts : Constructed(l)

InitConfig == \E l \in ConfigLayouts : Constructed(l)

\* data_recorder(): a new engine (the next test, the next run of the test
\* program) on the filesystem the earlier ones left behind
data_recorder ==
    /\ ret.op # "data_recorder"
    /\ m_recording_filename' = NoValue
    /\ m_recording_dir' = NoValue
    /\ m_on_mismatch' = NoValue
    /\ proc' = "running"
    /\ ret' = Returned("data_recorder", "void")
    /\ find_result' = NoFind
    /\ handler_calls' = <<>>
    /\ resolutions' = NoResolutions
    /\ UNCHANGED <<dirs, files, alloc, m_json, visits>>

\* set_recording_dir(recording_dir)
set_recording_dir(recording_dir) ==
    LET base_path == parent_path(recording_dir)
        file_name == filename(recording_dir)
        searches == ~(recording_dir = <<>>) /\ ~is_absolute(recording_dir) /\ base_path # <<>>
        find == IF searches THEN find_relative_path(recording_dir, dirs, files)
                ELSE find_result
        result == IF recording_dir = <<>> THEN "verify_failed"
                  ELSE IF ~searches THEN "void"
                  ELSE IF find.kind = "bad_alloc" THEN "diverged"
                  ELSE IF find.kind = "not_found" THEN "verify_failed"
                  ELSE "void"
    IN  /\ proc = "running"
        /\ m_recording_dir' =
               IF result # "void" THEN m_recording_dir
               ELSE IF is_absolute(recording_dir) THEN Some(recording_dir)
               ELSE IF base_path = <<>> THEN Some(PathAppend(current_path, <<file_name>>))
               ELSE Some(find.value)
        /\ find_result' = find
        /\ proc' = proc_after(result)
        /\ ret' = [Returned("set_recording_dir", result) EXCEPT !.dir_arg = recording_dir]
        /\ UNCHANGED <<dirs, files, m_recording_filename, m_on_mismatch, handler_calls,
                       resolutions, alloc, m_json, visits>>

\* the VERIFY of set_recording_filename
filename_accepted_from_two(name) == Len(name) > 1 /\ name[1] = "."

filename_accepted(name) == Len(name) > 2 /\ name[1] = "."

\* set_recording_filename(filename)
set_recording_filename(name) ==
    /\ proc = "running"
    /\ m_recording_filename' = IF filename_accepted(name) THEN Some(name)
                               ELSE m_recording_filename
    /\ proc' = IF filename_accepted(name) THEN "running" ELSE "aborted"
    /\ ret' = [Returned("set_recording_filename",
                        IF filename_accepted(name) THEN "void" ELSE "verify_failed")
               EXCEPT !.name_arg = name]
    /\ UNCHANGED <<dirs, files, m_recording_dir, m_on_mismatch, find_result, handler_calls,
                   resolutions, alloc, m_json, visits>>

\* on_mismatch(callback)
on_mismatch ==
    /\ proc = "running"
    /\ m_on_mismatch' = Some([kind |-> "callback", visualizer |-> <<>>])
    /\ ret' = Returned("on_mismatch", "void")
    /\ UNCHANGED <<dirs, files, m_recording_filename, m_recording_dir, proc,
                   find_result, handler_calls, resolutions, alloc, m_json, visits>>

\* the engine and the filesystem after a record(data) call with outcome r
RecordReturns(data, r) ==
        /\ proc = "running"
        /\ Cardinality(MismatchDirs(r.dirs)) <= MaxMismatchDirs
        /\ Cardinality(RecordingFiles(r.files)) <= MaxFiles
        /\ dirs' = r.dirs
        /\ files' = r.files
        /\ m_recording_filename' = r.m_recording_filename
        /\ m_on_mismatch' = r.m_on_mismatch
        /\ find_result' = r.find
        /\ handler_calls' = r.calls
        /\ proc' = proc_after(r.result)
        /\ ret' = [Returned("record", r.result) EXCEPT
                       !.error = r.error, !.data = data,
                       !.recording_path = r.recording_path, !.existed = r.existed]
        /\ resolutions' = [records |-> resolutions.records + 1,
                            handler |-> resolutions.handler + (IF r.selected THEN 1 ELSE 0),
                            filename |-> resolutions.filename + (IF r.derived THEN 1 ELSE 0)]
        /\ UNCHANGED <<m_recording_dir, alloc, m_json, visits>>

\* record(data)
Record(data) ==
    RecordReturns(data, record(data, m_recording_filename, m_recording_dir, m_on_mismatch,
                               find_result, dirs, files))

Next ==
    \/ data_recorder
    \/ \E recording_dir \in RecordDirArgs : set_recording_dir(recording_dir)
    \/ \E name \in NameArgs : set_recording_filename(name)
    \/ on_mismatch
    \/ \E data \in Data : Record(data)

Spec == Init /\ [][Next]_vars

\* configuration only, over every placement of the recording directories
NextConfig ==
    \/ data_recorder
    \/ \E recording_dir \in DirArgs : set_recording_dir(recording_dir)
    \/ \E name \in ConfigNameArgs : set_recording_filename(name)
    \/ on_mismatch

SpecConfig == InitConfig /\ [][NextConfig]_vars

-----------------------------------------------------------------------------
(* Properties *)

\* the engine has a recording directory, and the directory exists
Configured == m_recording_dir.has_value /\ m_recording_dir.value \in dirs

\* recording_dir / recording_filename, with the filename record would use
RecordingPath ==
    PathAppend(m_recording_dir.value,
               path_of(IF m_recording_filename.has_value
                       THEN m_recording_filename.value ELSE testname_as_filename, 1))

RecordingExists == exists(RecordingPath, dirs, files)

\* the chain positions whose directory holds path
Matches(path) ==
    {k \in 1..Len(CwdChain) : exists(PathAppend(CwdChain[k], path), dirs, files)}

\* C1: a record call that returns success leaves the set of
\* <temp>/cppmismatch-<n> directories as it was.
C1_SuccessCreatesNoMismatchDir ==
    [][(ret'.op = "record" /\ ret'.result = "success")
           => MismatchDirs(dirs') = MismatchDirs(dirs)]_vars

\* C2: with the recording directory set and no file at the recording path,
\* record(data) returns success and the file then holds exactly data.
C2_FirstRunCreatesBaseline ==
    [][(ret'.op = "record" /\ Configured /\ ~RecordingExists)
           => /\ ret'.result = "success"
              /\ RecordingPath \in DOMAIN files'
              /\ files'[RecordingPath] = ret'.data]_vars

\* C3: record(A) on an absent recording succeeds, and a following record(B)
\* with B # A on the same path fails with a mismatch whose recording_data is
\* A and whose mismatch_data is B.
C3_MismatchDetected ==
    [][/\ (ret'.op = "record" /\ Configured /\ ~RecordingExists)
              => ret'.result = "success"
       /\ (/\ ret'.op = "record" /\ ret.op = "record"
           /\ ret.result = "success" /\ ~ret.existed
           /\ Configured /\ ret.recording_path = RecordingPath
           /\ ret'.data # ret.data)
              => /\ ret'.result = "failure"
                 /\ Len(handler_calls') = 1
                 /\ handler_calls'[1].recording_data = ret.data
                 /\ handler_calls'[1].mismatch_data = ret'.data]_vars

\* C4: no call changes the content of a recording file that exists.
C4_RecordingNeverChanges ==
    [][\A p \in RecordingFiles(files) : p \in DOMAIN files' /\ files'[p] = files[p]]_vars

\* a failing record(B) through the diff handler against a recording holding A
C4_Witness ==
    /\ ret.op = "record" /\ ret.result = "failure" /\ ret.existed
    /\ ret.error.by = "diff"
    /\ ret.recording_path \in DOMAIN files
    /\ files[ret.recording_path] = ret.error.recording_data
    /\ files[ret.recording_path] # ret.data

\* C5: record(data) on a configured engine returns success exactly when the
\* recording is absent or equal to data, and a failure exactly when it exists
\* with other content.
C5_SuccessIffAbsentOrEqual ==
    [][(ret'.op = "record" /\ Configured)
           => LET differs == RecordingExists /\ files[RecordingPath] # ret'.data
              IN  /\ ret'.result = "success" <=> ~differs
                  /\ ret'.result = "failure" <=> differs]_vars

\* C6: a record call invokes the mismatch handler once when the recording
\* exists and differs from data and not at all otherwise, and the failure it
\* returns is the value the handler returned.
C6_HandlerOncePerMismatch ==
    [][(ret'.op = "record" /\ Configured)
           => LET differs == RecordingExists /\ files[RecordingPath] # ret'.data
              IN  /\ Len(handler_calls') = (IF differs THEN 1 ELSE 0)
                  /\ differs =>
                         /\ m_on_mismatch'.has_value
                         /\ ret'.error = call_handler(m_on_mismatch'.value,
                                                      handler_calls'[1], dirs', files).error]_vars

\* C7: record on an engine without a recording directory fails on the
\* directory check before anything else: filename and mismatch handler stay
\* as they were and no file or directory changes.
C7_DirectoryCheckFirst ==
    [][(ret'.op = "record" /\ ~m_recording_dir.has_value)
           => /\ ret'.result = "verify_failed"
              /\ m_recording_filename' = m_recording_filename
              /\ m_on_mismatch' = m_on_mismatch
              /\ files' = files
              /\ dirs' = dirs]_vars

\* C8: set_recording_filename stores ".x", and rejects the empty string and
\* every filename without a dot.
C8_FilenameValidation ==
    ret.op = "set_recording_filename"
        => /\ ret.name_arg = <<".", "x">>
                  => ret.result = "void" /\ m_recording_filename = Some(<<".", "x">>)
           /\ Count(ret.name_arg, ".") = 0 => ret.result = "verify_failed"

\* C9: when the path exists under some directory of the chain cwd, parent,
\* ..., root, find_relative_path returns it under the nearest such directory,
\* having tried exactly the directories up to that one; it finds nothing
\* that does not exist.
C9_FindReturnsNearestMatch ==
    find_result.kind # "none"
        => LET matches == Matches(find_result.path)
           IN  /\ find_result.kind = "found" => matches # {}
               /\ matches # {}
                      => /\ find_result.kind = "found"
                         /\ \E k \in matches :
                                /\ \A j \in matches : k <= j
                                /\ find_result.value = PathAppend(CwdChain[k], find_result.path)
                                /\ find_result.searched_paths =
                                       [i \in 1..k |-> PathAppend(CwdChain[i], find_result.path)]

\* the path is found after walking up exactly two levels
C9_Witness ==
    /\ find_result.kind = "found"
    /\ Len(find_result.searched_paths) = 3
    /\ find_result.value = PathAppend(parent_path(parent_path(current_path)), multi_dir)

\* C10: when the path exists under no directory of the chain,
\* find_relative_path returns not-found with a search trail of one attempted
\* path per directory of the chain, in order, each once.
C10_NotFoundWithFullTrail ==
    (find_result.kind # "none" /\ Matches(find_result.path) = {})
        => /\ find_result.kind = "not_found"
           /\ find_result.searched_paths =
                  [i \in 1..Len(CwdChain) |-> PathAppend(CwdChain[i], find_result.path)]

\* C11: after a set_recording_dir call that returns normally, the stored
\* recording directory is not empty and names a path that exists.
C11_StoredDirExists ==
    (ret.op = "set_recording_dir" /\ ret.result = "void")
        => /\ m_recording_dir.has_value
           /\ m_recording_dir.value # <<>>
           /\ exists(m_recording_dir.value, dirs, files)

-----------------------------------------------------------------------------
\* The allocator on its own: one process calls determine_mismatch_dir again
\* and again on a temp directory that holds any set of cppmismatch-<n>.

\* the suffixes an allocation can meet
Suffixes == 0..(MaxPreDir + MaxAllocations + NumProcs * MaxRaceCalls + 1)

\* the n of <temp>/cppmismatch-<n>
Suffix(path) == CHOOSE n \in Suffixes : mismatch_dir_path(n) = path

\* the lowest n for which <temp>/cppmismatch-<n> does not exist
LowestUnused(ds, fs) ==
    CHOOSE n \in Suffixes :
        /\ ~exists(mismatch_dir_path(n), ds, fs)
        /\ \A m \in 0..(n - 1) : exists(mismatch_dir_path(m), ds, fs)

InitAlloc ==
    \E pre \in SUBSET (0..MaxPreDir) :
        /\ dirs = BaseDirs \cup {mismatch_dir_path(n) : n \in pre}
        /\ files = <<>>
        /\ m_recording_filename = NoValue
        /\ m_recording_dir = Some(abs_dir)
        /\ m_on_mismatch = NoValue
        /\ proc = "running"
        /\ ret = Returned("data_recorder", "void")
        /\ find_result = NoFind
        /\ handler_calls = <<>>
        /\ resolutions = NoResolutions
        /\ alloc = IdleAlloc
        /\ m_json = NoJson
        /\ visits = <<>>

\* one whole determine_mismatch_dir call of process 1
Allocate ==
    LET a == determine_mismatch_dir(m_recording_dir, dirs, files)
    IN  /\ proc = "running"
        /\ alloc[1].calls < MaxAllocations
        /\ dirs' = a.dirs
        /\ alloc' = [alloc EXCEPT ![1].calls = @ + 1,
                                  ![1].returned = IF a.ok THEN Append(@, a.mismatch_dir) ELSE @,
                                  ![1].pc = IF a.ok THEN "idle" ELSE "aborted"]
        /\ proc' = IF a.ok THEN "running" ELSE "aborted"
        /\ UNCHANGED <<files, m_recording_filename, m_recording_dir, m_on_mismatch, ret,
                       find_result, handler_calls, resolutions, m_json, visits>>

NextAlloc == Allocate

SpecAlloc == InitAlloc /\ [][NextAlloc]_vars

\* the directory the last call of process p returned
LastReturned(p) == alloc[p].returned[Len(alloc[p].returned)]

\* C12: a determine_mismatch_dir call returns <temp>/cppmismatch-<n> for the
\* lowest n whose path did not exist when the call started; the directory
\* exists when the call returns and the call created no other directory.
C12_LowestUnusedCreated ==
    [][Len(alloc'[1].returned) > Len(alloc[1].returned)
        => /\ LastReturned(1)' = mismatch_dir_path(LowestUnused(dirs, files))
           /\ LastReturned(1)' \in dirs'
           /\ dirs' = dirs \cup {LastReturned(1)'}
           /\ files' = files]_vars

\* a call that skipped cppmismatch-0 and cppmismatch-1 and stopped before
\* cppmismatch-3
C12_Witness ==
    /\ alloc[1].returned = <<mismatch_dir_path(2)>>
    /\ mismatch_dir_path(3) \in dirs

\* C13: whatever cppmismatch-<n> directories exist at the start, gaps included,
\* consecutive allocations return pairwise distinct directories, none of which
\* existed before its call, with strictly increasing suffixes, the first one
\* being the lowest unused suffix.
C13_ConsecutiveAllocationsFresh ==
    [][Len(alloc'[1].returned) > Len(alloc[1].returned)
        => LET returned == alloc'[1].returned
               last == Len(returned)
           IN  /\ ~exists(returned[last], dirs, files)
               /\ \A j \in 1..(last - 1) :
                      /\ returned[j] # returned[last]
                      /\ Suffix(returned[j]) < Suffix(returned[last])
               /\ last = 1 => Suffix(returned[1]) = LowestUnused(dirs, files)]_vars

\* three allocations that started above existing directories and stepped
\* over one on the way
C13_Witness ==
    /\ Len(alloc[1].returned) = MaxAllocations
    /\ Suffix(alloc[1].returned[1]) > 0
    /\ \E j \in 1..(MaxAllocations - 1) :
           Suffix(alloc[1].returned[j + 1]) > Suffix(alloc[1].returned[j]) + 1

-----------------------------------------------------------------------------
\* Several processes allocate in the same temp directory: each exists() test
\* of the scan and the create_directory call is a step of its own.

InitRace ==
    \E pre \in SUBSET (0..MaxInitDir) :
        /\ dirs = BaseDirs \cup {mismatch_dir_path(n) : n \in pre}
        /\ files = <<>>
        /\ m_recording_filename = NoValue
        /\ m_recording_dir = Some(abs_dir)
        /\ m_on_mismatch = NoValue
        /\ proc = "running"
        /\ ret = Returned("data_recorder", "void")
        /\ find_result = NoFind
        /\ handler_calls = <<>>
        /\ resolutions = NoResolutions
        /\ alloc = IdleAlloc
        /\ m_json = NoJson
        /\ visits = <<>>

RaceUnchanged ==
    UNCHANGED <<files, m_recording_filename, m_recording_dir, m_on_mismatch, proc, ret,
                find_result, handler_calls, resolutions, m_json, visits>>

\* process p enters determine_mismatch_dir: VERIFY(m_recording_dir), i = 0
StartAllocation(p) ==
    /\ alloc[p].pc = "idle"
    /\ alloc[p].calls < MaxRaceCalls
    /\ alloc' = [alloc EXCEPT ![p].calls = @ + 1,
                              ![p].i = 0,
                              ![p].pc = IF m_recording_dir.has_value
                                        THEN "scan" ELSE "aborted"]
    /\ UNCHANGED dirs
    /\ RaceUnchanged

\* one round of the loop: exists(mismatch_dir) ? i++ : break
Scan(p) ==
    /\ alloc[p].pc = "scan"
    /\ alloc' = IF exists(mismatch_dir_path(alloc[p].i), dirs, files)
                THEN [alloc EXCEPT ![p].i = @ + 1]
                ELSE [alloc EXCEPT ![p].pc = "create"]
    /\ UNCHANGED dirs
    /\ RaceUnchanged

\* create_directory(mismatch_dir); VERIFY(created); return mismatch_dir
CreateDirectory(p) ==
    LET mismatch_dir == mismatch_dir_path(alloc[p].i)
        created == create_directory(mismatch_dir, dirs, files)
    IN  /\ alloc[p].pc = "create"
        /\ dirs' = IF created THEN dirs \cup {mismatch_dir} ELSE dirs
        /\ alloc' = IF created
                    THEN [alloc EXCEPT ![p].pc = "idle",
                                       ![p].returned = Append(@, mismatch_dir)]
                    ELSE [alloc EXCEPT ![p].pc = "aborted"]
        /\ RaceUnchanged

NextRace ==
    \E p \in Procs :
        \/ StartAllocation(p)
        \/ Scan(p)
        \/ CreateDirectory(p)

SpecRace == InitRace /\ [][NextRace]_vars

\* every allocation that returned, as <<process, call>>
Allocations == {<<p, j>> : p \in Procs, j \in 1..MaxRaceCalls}

ReturnedAllocations == {a \in Allocations : a[2] <= Len(alloc[a[1]].returned)}

\* C14: when processes interleave their scan steps and their create_directory
\* steps, no two allocations that returned share a path, and the process
\* that loses a creation race ends in a fatal error: it returns nothing from
\* that call and never takes another step.
C14_ConcurrentAllocationsDistinct ==
    [][/\ \A a, b \in ReturnedAllocations' :
              a # b => alloc'[a[1]].returned[a[2]] # alloc'[b[1]].returned[b[2]]
       /\ \A p \in Procs :
              /\ (alloc[p].pc = "create"
                    /\ alloc'[p] # alloc[p]
                    /\ exists(mismatch_dir_path(alloc[p].i), dirs, files))
                  => (alloc'[p].pc = "aborted"
                        /\ alloc'[p].returned = alloc[p].returned
                        /\ dirs' = dirs)
              /\ alloc[p].pc = "aborted" => alloc'[p] = alloc[p]]_vars

\* a process lost the race for a directory that another process returned
C14_Witness ==
    \E p, q \in Procs :
        /\ p # q
        /\ alloc[p].pc = "aborted"
        /\ mismatch_dir_path(alloc[p].i) \in Range(alloc[q].returned)
        /\ mismatch_dir_path(alloc[p].i) \notin Range(alloc[p].returned)

-----------------------------------------------------------------------------
\* C15: the selection of the default handler and the derivation of the
\* default filename each run at most once per engine and only inside a record
\* call; the selection does not run when a handler is registered and the
\* derivation does not run when a filename is stored.
C15_LazyResolutionOnce ==
    [][/\ resolutions'.handler <= 1
       /\ resolutions'.filename <= 1
       /\ resolutions'.handler <= resolutions'.records
       /\ resolutions'.filename <= resolutions'.records
       /\ resolutions'.records > resolutions.records
            => /\ m_on_mismatch.has_value
                    => resolutions'.handler = resolutions.handler
               /\ m_recording_filename.has_value
                    => resolutions'.filename = resolutions.filename
       /\ resolutions'.records <= resolutions.records
            => \/ resolutions' = resolutions
               \/ resolutions' = NoResolutions]_vars

\* an engine that selected and derived in its first record call has returned
\* from a later one
C15_Witness ==
    /\ resolutions.records > 1
    /\ resolutions.handler = 1
    /\ resolutions.filename = 1
    /\ ret.op = "record"
    /\ ret.result \in {"success", "failure"}

\* visualizer/recording_diff.html exists under the working directory or one
\* of its ancestors
TemplateAbove ==
    \E d \in Range(CwdChain) : exists(PathAppend(d, visualizer_path), dirs, files)

\* C16: a record call that starts with no handler registered selects the
\* diff handler if and only if the template exists under the working
\* directory or an ancestor, selects the plain-text handler otherwise, and
\* in that case still runs to its end.
C16_HandlerSelection ==
    [][(resolutions'.records > resolutions.records /\ ~m_on_mismatch.has_value)
        => /\ ret'.result # "diverged"
           /\ m_on_mismatch'.has_value
           /\ m_on_mismatch'.value.kind = IF TemplateAbove THEN "diff" ELSE "default"]_vars

-----------------------------------------------------------------------------
(* filter_json *)

\* bourne::json values; the members of an object are kept in key order, the
\* order in which object_range() walks them
json_number(n) == [type |-> "number", n |-> n, items |-> <<>>, members |-> <<>>]
json_array(items) == [type |-> "array", n |-> 0, items |-> items, members |-> <<>>]
json_object(members) == [type |-> "object", n |-> 0, items |-> <<>>, members |-> members]

is_object(value) == value.type = "object"

has_key(object, key) ==
    is_object(object) /\ \E i \in 1..Len(object.members) : object.members[i].key = key

\* the visitor of the documentation: if (obj.has_key("pid")) obj["pid"] = 0
visitor(object) ==
    IF has_key(object, "pid")
    THEN json_object([i \in 1..Len(object.members) |->
                        IF object.members[i].key = "pid"
                        THEN [key |-> "pid", value |-> json_number(0)]
                        ELSE object.members[i]])
    ELSE object

descends_into_any(value) == TRUE

\* if (value.is_object()): the members transform_object recurses into
descends(value) == is_object(value)

\* transform_object: the visitor on the node, then the object-valued members
\* of the node as the visitor left it; path is the way from m_json to the node
RECURSIVE transform_object(_, _)
RECURSIVE transform_members(_, _, _)
transform_object(object, path) ==
    LET visited == visitor(object)
        children == transform_members(visited.members, 1, path)
    IN  [json |-> [visited EXCEPT !.members = children.members],
         visits |-> <<path>> \o children.visits]

\* the for loop of transform_object from member i on
transform_members(members, i, path) ==
    IF i > Len(members)
    THEN [members |-> <<>>, visits |-> <<>>]
    ELSE LET child == IF descends(members[i].value)
                      THEN transform_object(members[i].value, Append(path, members[i].key))
                      ELSE [json |-> members[i].value, visits |-> <<>>]
             rest == transform_members(members, i + 1, path)
         IN  [members |-> <<[key |-> members[i].key, value |-> child.json]>> \o rest.members,
              visits |-> child.visits \o rest.visits]

\* every document of nesting depth d over the keys "nested" and "pid", with
\* a number, an empty object or an empty array under "pid"
RECURSIVE JsonValues(_)
JsonValues(d) ==
    IF d = 0
    THEN {json_number(5), json_object(<<>>), json_array(<<>>)}
    ELSE LET below == JsonValues(d - 1)
             member(key, values) == {<<>>} \cup {<<[key |-> key, value |-> v]>> : v \in values}
         IN  below
                \cup {json_object(a \o b) : a \in member("nested", below),
                                            b \in member("pid", JsonValues(0))}
                \cup {json_array(<<v>>) : v \in below}

\* {"pid":1234,"nested":{"pid":5678,"x":1}}
NestedExample ==
    json_object(<<[key |-> "nested",
                   value |-> json_object(<<[key |-> "pid", value |-> json_number(5678)],
                                           [key |-> "x", value |-> json_number(1)]>>)],
                  [key |-> "pid", value |-> json_number(1234)]>>)

\* {"pid":0,"nested":{"pid":0,"x":1}}
NestedExampleRedacted ==
    json_object(<<[key |-> "nested",
                   value |-> json_object(<<[key |-> "pid", value |-> json_number(0)],
                                           [key |-> "x", value |-> json_number(1)]>>)],
                  [key |-> "pid", value |-> json_number(0)]>>)

\* {"list":[{"pid":5}],"nested":{"pid":5},"pid":5}
ArrayExample ==
    json_object(<<[key |-> "list",
                   value |-> json_array(<<json_object(<<[key |-> "pid",
                                                         value |-> json_number(5)]>>)>>)],
                  [key |-> "nested",
                   value |-> json_object(<<[key |-> "pid", value |-> json_number(5)]>>)],
                  [key |-> "pid", value |-> json_number(5)]>>)

JsonInputs == JsonValues(MaxJsonDepth) \cup {NestedExample, ArrayExample}

\* filter_json(const bourne::json& data)
InitJson ==
    \E data \in JsonInputs :
        /\ dirs = BaseDirs
        /\ files = <<>>
        /\ m_recording_filename = NoValue
        /\ m_recording_dir = NoValue
        /\ m_on_mismatch = NoValue
        /\ proc = "running"
        /\ ret = Returned("filter_json", "void")
        /\ find_result = NoFind
        /\ handler_calls = <<>>
        /\ resolutions = NoResolutions
        /\ alloc = IdleAlloc
        /\ m_json = data
        /\ visits = <<>>

transform_objects ==
    LET transformed == transform_object(m_json, <<>>)
    IN  /\ ret.op = "filter_json"
        /\ m_json' = transformed.json
        /\ visits' = transformed.visits
        /\ ret' = Returned("transform_objects", "void")
        /\ UNCHANGED <<dirs, files, m_recording_filename, m_recording_dir, m_on_mismatch,
                       proc, find_result, handler_calls, resolutions, alloc>>

NextJson == transform_objects

SpecJson == InitJson /\ [][NextJson]_vars

\* the member of an object stored under key
member_value(object, key) ==
    object.members[CHOOSE i \in 1..Len(object.members) : object.members[i].key = key].value

\* the node a path of keys leads to
RECURSIVE node_at(_, _)
node_at(value, path) ==
    IF path = <<>> THEN value ELSE node_at(member_value(value, Head(path)), Tail(path))

\* the paths of keys that lead from value to a node
RECURSIVE KeyPaths(_)
KeyPaths(value) ==
    {<<>>} \cup UNION {{<<value.members[i].key>> \o p : p \in KeyPaths(value.members[i].value)} :
                          i \in 1..Len(value.members)}

\* the root and the object nodes reached from it through objects only
ObjectPaths(value) ==
    {<<>>} \cup {p \in KeyPaths(value) :
                    \A k \in 0..Len(p) : is_object(node_at(value, SubSeq(p, 1, k)))}

\* C17: transform_objects calls the visitor exactly once on the root and on
\* every object reached from it through object-valued members, a parent
\* before its children, and on no array, scalar or object inside an array
\* below the root; every visited object ends with "pid" zero, arrays keep
\* their content, and {"pid":1234,"nested":{"pid":5678,"x":1}} becomes
\* {"pid":0,"nested":{"pid":0,"x":1}}.
C17_VisitsObjectsPreOrder ==
    [][ret'.op = "transform_objects"
        => /\ Range(visits') = ObjectPaths(m_json')
           /\ \A i, j \in 1..Len(visits') : i # j => visits'[i] # visits'[j]
           /\ \A j \in 1..Len(visits') :
                  visits'[j] # <<>>
                    => \E i \in 1..(j - 1) :
                           visits'[i] = SubSeq(visits'[j], 1, Len(visits'[j]) - 1)
           /\ \A p \in ObjectPaths(m_json') :
                  has_key(node_at(m_json', p), "pid")
                    => member_value(node_at(m_json', p), "pid") = json_number(0)
           /\ \A p \in KeyPaths(m_json) :
                  (node_at(m_json, p).type = "array" /\ p \in KeyPaths(m_json'))
                    => \/ node_at(m_json', p) = node_at(m_json, p)
                       \/ p[Len(p)] = "pid"
           /\ m_json = NestedExample => m_json' = NestedExampleRedacted]_vars

\* the nested object was visited after the root and the object inside the
\* array kept its "pid"
C17_Witness ==
    /\ ret.op = "transform_objects"
    /\ visits = <<<<>>, <<"nested">>>>
    /\ has_key(m_json, "list")
    /\ member_value(member_value(m_json, "list").items[1], "pid") = json_number(5)
    /\ member_value(member_value(m_json, "nested"), "pid") = json_number(0)

-----------------------------------------------------------------------------
\* The diff handler on its own: compare_data has found a mismatch and hands
\* it to diff_mismatch_handler.

\* characters that mean something to the format string, to the escaping or
\* to the template (BQ stands for the backtick)
RenderAlphabet == {"$", "1", "&", "{", "}", "BQ"}

\* ${1}
str_placeholder == <<"$", "{", "1", "}">>

RenderData == SeqsUpTo(RenderAlphabet, MaxRenderLen) \cup {str_placeholder}

\* the filenames an engine can hold: the derived one and accepted ones
DiffNames ==
    {name \in {testname_as_filename, <<".", "x", "x">>, template_like_name} :
        name = testname_as_filename \/ filename_accepted(name)}

\* the template next to the working directory, <temp>/cppmismatch-0 created
DiffLayout ==
    [template |-> {current_path}, single |-> {}, multi |-> {}, mismatch |-> {0}]

InitDiff ==
    \E recording_data \in RenderData, data \in RenderData, name \in DiffNames :
        /\ data # recording_data
        /\ dirs = LayoutDirs(DiffLayout)
        /\ files = write_data(PathAppend(abs_dir, path_of(name, 1)), recording_data,
                              LayoutFiles(DiffLayout))
        /\ m_recording_filename = Some(name)
        /\ m_recording_dir = Some(abs_dir)
        /\ m_on_mismatch = Some([kind |-> "diff",
                                 visualizer |-> PathAppend(current_path, visualizer_path)])
        /\ proc = "running"
        /\ ret = [Returned("compare_data", "mismatch") EXCEPT !.data = data]
        /\ find_result = NoFind
        /\ handler_calls = <<>>
        /\ resolutions = NoResolutions
        /\ alloc = IdleAlloc
        /\ m_json = NoJson
        /\ visits = <<>>

\* m_on_mismatch.value()(mismatch) with the diff handler
DiffMismatchHandler ==
    LET mismatch == data_mismatch(read_data(RecordingPath, files), ret.data,
                                  mismatch_dir_path(0), RecordingPath)
        call == call_handler(m_on_mismatch.value, mismatch, dirs, files)
        result == IF call.ok THEN "failure" ELSE "verify_failed"
    IN  /\ ret.op = "compare_data"
        /\ files' = call.files
        /\ handler_calls' = <<mismatch>>
        /\ ret' = [Returned("diff_mismatch_handler", result) EXCEPT
                     !.error = call.error, !.data = ret.data,
                     !.recording_path = RecordingPath, !.existed = TRUE]
        /\ proc' = proc_after(result)
        /\ UNCHANGED <<dirs, m_recording_filename, m_recording_dir, m_on_mismatch,
                       find_result, resolutions, alloc, m_json, visits>>

NextDiff == DiffMismatchHandler

SpecDiff == InitDiff /\ [][NextDiff]_vars

\* mismatch_dir / recording_path.filename()
RawPath(mismatch) ==
    PathAppend(mismatch.mismatch_dir, <<filename(mismatch.recording_path)>>)

\* mismatch_dir / recording_diff_html.filename()
HtmlPath(mismatch, recording_diff_html) ==
    PathAppend(mismatch.mismatch_dir, <<filename(recording_diff_html)>>)

\* the template with both blocks filled in by the two regex_replace calls
Rendered(template, mismatch) ==
    replace_block(
        replace_block(template, "const oldText = BQ", "BQ;",
                      escape_dollar_bracs(mismatch.recording_data)),
        "const newText = BQ", "BQ;", escape_dollar_bracs(mismatch.mismatch_data))

\* C18: when the diff handler has returned for a mismatch m and a template
\* t, m.mismatch_dir holds a file named like the recording with exactly the
\* raw m.mismatch_data and a file named like t with the rendered template;
\* the two are different files and no other file was written or changed.
C18_DiffHandlerWritesTwoFiles ==
    [][(ret'.op = "diff_mismatch_handler" /\ ret'.result = "failure")
        => LET m == handler_calls'[1]
               t == m_on_mismatch.value.visualizer
           IN  /\ RawPath(m) \in DOMAIN files'
               /\ files'[RawPath(m)] = m.mismatch_data
               /\ HtmlPath(m, t) \in DOMAIN files'
               /\ files'[HtmlPath(m, t)] = Rendered(files[t], m)
               /\ RawPath(m) # HtmlPath(m, t)
               /\ \A p \in DOMAIN files' :
                      \/ p \in {RawPath(m), HtmlPath(m, t)}
                      \/ p \in DOMAIN files /\ files'[p] = files[p]]_vars

\* the original template with the content of the oldText block replaced by
\* the escaped recording data and that of the newText block by the escaped
\* mismatch data
ExpectedRendering(template, mismatch) ==
    SubSeq(template, 1, 2) \o escape_dollar_bracs(mismatch.recording_data)
        \o SubSeq(template, 3, 5) \o escape_dollar_bracs(mismatch.mismatch_data)
        \o SubSeq(template, 6, 7)

\* C19: whatever the recording data and the mismatch data are, the rendered
\* template is the original template with the content of the oldText block
\* replaced by exactly escape(recording_data) and that of the newText block
\* by exactly escape(mismatch_data); markers and all other text are unchanged.
C19_RenderedTemplateExact ==
    [][(ret'.op = "diff_mismatch_handler" /\ ret'.result = "failure"
            /\ RawPath(handler_calls'[1])
                 # HtmlPath(handler_calls'[1], m_on_mismatch.value.visualizer))
        => files'[HtmlPath(handler_calls'[1], m_on_mismatch.value.visualizer)]
             = ExpectedRendering(files[m_on_mismatch.value.visualizer],
                                 handler_calls'[1])]_vars

-----------------------------------------------------------------------------
-----------------------------------------------------------------------------
\* record(const std::vector<std::string>&) in place of record(const std::string&)

\* the elements of the vector
Elements == SeqsUpTo({"A"}, MaxElementLen)

Vectors == SeqsUpTo(Elements, MaxVectorLen)

RECURSIVE data_string_separated(_, _)
data_string_separated(data, i) ==
    IF i > Len(data) THEN <<>>
    ELSE IF i = Len(data) THEN data[i]
    ELSE data[i] \o <<"\n">> \o data_string_separated(data, i + 1)

\* the loop of record(vector) from element i on: data_string += data + "\n"
RECURSIVE data_string(_, _)
data_string(data, i) ==
    IF i > Len(data) THEN <<>> ELSE data[i] \o <<"\n">> \o data_string(data, i + 1)

\* record(vector): return record(data_string)
RecordVector(data) == Record(data_string(data, 1))

NextVector ==
    \/ \E recording_dir \in RecordDirArgs : set_recording_dir(recording_dir)
    \/ on_mismatch
    \/ \E data \in Vectors : RecordVector(data)

SpecVector == Init /\ [][NextVector]_vars

\* where element i starts in the joined string: after every earlier element
\* and its newline
RECURSIVE ElementStart(_, _)
ElementStart(data, i) ==
    IF i = 1 THEN 0 ELSE ElementStart(data, i - 1) + Len(data[i - 1]) + 1

\* s is the concatenation, in order, of each element followed by "\n"
IsNewlineJoined(s, data) ==
    /\ Len(s) = ElementStart(data, Len(data) + 1)
    /\ \A i \in 1..Len(data) :
           LET start == ElementStart(data, i)
           IN  /\ SubSeq(s, start + 1, start + Len(data[i])) = data[i]
               /\ s[start + Len(data[i]) + 1] = "\n"

\* C21: record(sequence) is record(s) for the string s that holds every
\* element in order, each followed by a newline, the last one included (the
\* empty string for the empty sequence): same result, same engine and same
\* filesystem afterwards.
C21_VectorIsNewlineJoined ==
    [][\A data \in Vectors :
           RecordVector(data)
             => \E s \in SeqsUpTo({"A", "\n"}, MaxVectorLen * (MaxElementLen + 1)) :
                    IsNewlineJoined(s, data) /\ Record(s)]_vars

\* a two-element vector was compared with the recording of another vector
C21_Witness ==
    /\ ret.op = "record"
    /\ ret.data = <<"A", "\n", "\n">>
    /\ ret.existed
    /\ ret.result = "failure"

-----------------------------------------------------------------------------
\* C22: for a relative path p, a single component included, set_recording_dir
\* stores d/p for the first directory d of the chain cwd, parent, ..., root
\* under which p exists, and fails when there is no such directory.
C22_RelativeDirResolved ==
    (/\ ret.op = "set_recording_dir"
     /\ ret.dir_arg # <<>>
     /\ ~is_absolute(ret.dir_arg))
        => IF Matches(ret.dir_arg) = {}
           THEN ret.result = "verify_failed"
           ELSE /\ ret.result = "void"
                /\ \E i \in Matches(ret.dir_arg) :
                       /\ \A j \in Matches(ret.dir_arg) : i <= j
                       /\ m_recording_dir = Some(PathAppend(CwdChain[i], ret.dir_arg))

-----------------------------------------------------------------------------
\* the files that lie below directory d
FilesBelow(d, fs) ==
    {p \in DOMAIN fs : Len(p) > Len(d) /\ SubSeq(p, 1, Len(d)) = d}

\* the Mismatch handed to the handler names a directory this call created,
\* still empty, and the path of the recording that was read
MismatchAsAllocated(m) ==
    /\ m.mismatch_dir \in dirs' \ dirs
    /\ IsMismatchPath(m.mismatch_dir)
    /\ FilesBelow(m.mismatch_dir, files) = {}
    /\ m_recording_dir.has_value /\ m_recording_filename'.has_value
    /\ m.recording_path =
           PathAppend(m_recording_dir.value, path_of(m_recording_filename'.value, 1))
    /\ m.recording_path = ret'.recording_path
    /\ m.recording_path \in DOMAIN files

\* the call found the recording and found it different from data
InequalityDetected ==
    /\ ret'.existed
    /\ ret'.recording_path \in DOMAIN files
    /\ files[ret'.recording_path] # ret'.data

\* C23: the Mismatch a handler receives has mismatch_dir naming an existing,
\* empty directory created during this record call and recording_path equal
\* to recording_dir/recording_filename of the file read; the directory is
\* allocated after the inequality is detected, so only when there is one.
C23_MismatchDirAllocatedOnInequality ==
    [][ret'.op = "record"
          => /\ \A k \in 1..Len(handler_calls') : MismatchAsAllocated(handler_calls'[k])
             /\ MismatchDirs(dirs') # MismatchDirs(dirs) => InequalityDetected]_vars

-----------------------------------------------------------------------------
\* the files that lie in some mismatch directory
MismatchFiles(fs) == {p \in DOMAIN fs : IsMismatchPath(p)}

\* C24: no operation deletes, renames or reuses an existing cppmismatch-<n>
\* directory: the set of mismatch directories only grows, a handler is never
\* given a directory that existed before its call, and a file lying in a
\* mismatch directory keeps its content through every later call.
C24_MismatchDirsOnlyGrow ==
    [][/\ MismatchDirs(dirs) \subseteq MismatchDirs(dirs')
       /\ ret'.op = "record"
              => \A k \in 1..Len(handler_calls') : handler_calls'[k].mismatch_dir \notin dirs
       /\ \A p \in MismatchFiles(files) : p \in DOMAIN files' /\ files'[p] = files[p]]_vars

\* a second mismatch was rendered next to the files of the first one
C24_Witness ==
    /\ ret.op = "record" /\ ret.result = "failure"
    /\ handler_calls # <<>>
    /\ \E i \in MismatchDirs(dirs) :
           /\ mismatch_dir_path(i) # handler_calls[1].mismatch_dir
           /\ FilesBelow(mismatch_dir_path(i), files) # {}
    /\ FilesBelow(handler_calls[1].mismatch_dir, files) # {}

====
